---- MODULE Spec2Model ----
(***************************************************************************)
(* Orchard mapping application: PMTiles upload validation                  *)
(* (app/api/orchards/create), the orchard upload flow with its database,   *)
(* file storage and registry file, and the mbtiles tile route.             *)
(*                                                                         *)
(* Number conventions.  Geographic coordinates are fixed-point with one    *)
(* binary digit: the integer v stands for v/2 degrees (Deg(d) is d         *)
(* degrees), so midpoints of whole-degree bounds are exact.  Zoom levels   *)
(* are in tenths: the integer z stands for z/10 (Zoom(n) is zoom n), so    *)
(* the cap 21.5 of the source is 215.                                      *)
(* Texts are sequences of string tokens; a number interpolated into a      *)
(* template literal is one token, the decimal text of the number.          *)
(***************************************************************************)
EXTENDS Integers, Sequences, FiniteSets, TLC

Deg(d) == 2 * d
Zoom(n) == 10 * n

Min(a, b) == IF a < b THEN a ELSE b
Max(a, b) == IF a > b THEN a ELSE b

\* `${n}` of a zoom number kept in tenths: 250 -> "25", 215 -> "21.5"
NumText(z) ==
  IF z % 10 = 0 THEN ToString(z \div 10)
  ELSE ToString(z \div 10) \o "." \o ToString(z % 10)

\* text contains the token tok
Mentions(text, tok) == \E i \in DOMAIN text : text[i] = tok

(***************************************************************************)
(* PMTiles header tile types, as the repository's own type table lists     *)
(* them (scripts/check-pmtiles-type).                                      *)
(***************************************************************************)
types ==
  [t \in 0..5 |->
     CASE t = 0 -> "Unknown"
       [] t = 1 -> "MVT"
       [] t = 2 -> "PNG"
       [] t = 3 -> "JPEG"
       [] t = 4 -> "WEBP"
       [] t = 5 -> "AVIF"]

RasterTypes == {t \in DOMAIN types : types[t] \in {"PNG", "JPEG", "WEBP", "AVIF"}}
VectorTypes == {t \in DOMAIN types : types[t] = "MVT"}

(***************************************************************************)
(* validatePMTilesFile (app/api/orchards/create/route.ts)                  *)
(***************************************************************************)
ZoomCap == 215

VectorWarning ==
  <<"Vector PMTiles detected. This endpoint is optimized for raster/imagery tiles.">>

WorldBoundsWarning ==
  <<"PMTiles appears to have world bounds. This may indicate incorrect georeferencing.">>

\* the if / else-if / else on header.tileType
tileTypeOf(t) ==
  IF t = 1 THEN "raster" ELSE IF t = 2 THEN "vector" ELSE "unsupported"

UnsupportedError_NoType(t) ==
  <<"Unsupported tile type. Expected raster (1) or vector (2).">>

UnsupportedError(t) ==
  <<"Unsupported tile type: ", ToString(t), ". Expected raster (1) or vector (2).">>

boundsMissing(header) ==
  \/ "minLon" \notin DOMAIN header
  \/ "minLat" \notin DOMAIN header
  \/ "maxLon" \notin DOMAIN header
  \/ "maxLat" \notin DOMAIN header

\* a missing bound reported as a warning on an otherwise valid result
missingBoundsResult_Warning ==
  [valid |-> TRUE,
   warnings |-> << <<"PMTiles file does not contain valid geographic bounds">> >>]

\* lines 266-269: the result for a header that lacks a bound
missingBoundsResult ==
  [valid |-> FALSE,
   error |-> <<"PMTiles file does not contain valid geographic bounds">>]

\* all four comparisons strict
isWorldBounds_Strict(header) ==
  /\ header.minLon < Deg(-180)
  /\ header.maxLon > Deg(180)
  /\ header.minLat < Deg(-85)
  /\ header.maxLat > Deg(85)

isWorldBounds(header) ==
  /\ header.minLon <= Deg(-180)
  /\ header.maxLon >= Deg(180)
  /\ header.minLat <= Deg(-85)
  /\ header.maxLat >= Deg(85)

\* header.centerLon || ..., which takes the midpoint for a center of 0 too
centerLngOf_Falsy(header) ==
  IF "centerLon" \in DOMAIN header /\ header.centerLon # 0 THEN header.centerLon
  ELSE (header.minLon + header.maxLon) \div 2

\* header.centerLon ?? (header.minLon + header.maxLon) / 2
centerLngOf(header) ==
  IF "centerLon" \in DOMAIN header THEN header.centerLon
  ELSE (header.minLon + header.maxLon) \div 2

centerLatOf(header) ==
  IF "centerLat" \in DOMAIN header THEN header.centerLat
  ELSE (header.minLat + header.maxLat) \div 2

capMaxZoom_NoCap(m) == m

capMaxZoom(m) == Min(m, ZoomCap)

zoomWarnings(m) ==
  IF m > ZoomCap
  THEN << <<"Max zoom capped at ", "21.5", " (was ", NumText(m),
            ") to prevent map rendering issues.">> >>
  ELSE <<>>

\* warnings: warnings.length > 0 ? warnings : undefined
validResult(warnings, metadata) ==
  IF warnings = <<>>
  THEN [valid |-> TRUE, metadata |-> metadata]
  ELSE [valid |-> TRUE, warnings |-> warnings, metadata |-> metadata]

\* rd is what pmtiles.getHeader() did on the file: threw (kind "throw", with
\* the error's message), gave no header (kind "null") or gave rd.header.
validatePMTilesFile(rd) ==
  IF rd.kind = "throw"
  THEN [valid |-> FALSE, error |-> <<"Failed to validate PMTiles: ", rd.message>>]
  ELSE IF rd.kind = "null"
  THEN [valid |-> FALSE, error |-> <<"Could not read PMTiles header">>]
  ELSE
    LET header == rd.header
        tileType == tileTypeOf(header.tileType)
        w1 == IF tileType = "vector" THEN <<VectorWarning>> ELSE <<>>
    IN IF tileType = "unsupported"
       THEN [valid |-> FALSE, error |-> UnsupportedError(header.tileType)]
       ELSE IF boundsMissing(header)
       THEN missingBoundsResult
       ELSE
         LET w2 == IF isWorldBounds(header) THEN <<WorldBoundsWarning>> ELSE <<>>
             maxZoom == capMaxZoom(header.maxZoom)
             w3 == zoomWarnings(header.maxZoom)
         IN validResult(w1 \o w2 \o w3,
              [bounds |-> [minLng |-> header.minLon, minLat |-> header.minLat,
                           maxLng |-> header.maxLon, maxLat |-> header.maxLat],
               center |-> [lng |-> centerLngOf(header), lat |-> centerLatOf(header)],
               minZoom |-> header.minZoom,
               maxZoom |-> maxZoom,
               tileType |-> tileType])

(***************************************************************************)
(* validatePMTiles (lib/pmtiles-utils.ts).  ld is what getHeader() and     *)
(* getMetadata() did: one of them threw (kind "throw"), or getMetadata()   *)
(* resolved to null (kind "null": the archive's JSON metadata is the value  *)
(* null; the code reads it with metadata?.vector_layers), or it resolved   *)
(* to the object ld.metadata.                                              *)
(***************************************************************************)
validatePMTiles(ld) ==
  IF ld.kind = "throw"
  THEN [valid |-> FALSE, error |-> ld.message]
  ELSE IF ld.kind = "null"
  THEN [valid |-> TRUE]
  ELSE [valid |-> TRUE, metadata |-> ld.metadata]

(***************************************************************************)
(* Inputs of the validators                                                *)
(***************************************************************************)
MaxTileType == 7
MaxHeaderZoom == 25

HeaderZooms == {Zoom(n) : n \in 17..MaxHeaderZoom}

\* minLon, minLat, maxLon, maxLat, in degrees: an orchard, the whole world,
\* and the world but for its southern edge
BoundsChoices ==
  { <<-124, 48, -122, 50>>, <<-180, -85, 180, 85>>, <<-180, -84, 180, 90>> }

FullHeaders ==
  { [tileType |-> t, minZoom |-> Zoom(0), maxZoom |-> z,
     minLon |-> Deg(b[1]), minLat |-> Deg(b[2]),
     maxLon |-> Deg(b[3]), maxLat |-> Deg(b[4]),
     centerLon |-> Deg(c[1]), centerLat |-> Deg(c[2])] :
       t \in 0..MaxTileType, z \in HeaderZooms, b \in BoundsChoices,
       c \in {<<-123, 49>>, <<0, 0>>} }

\* the header h without the fields in drop (they read as undefined)
Without(h, drop) == [f \in DOMAIN h \ drop |-> h[f]]

DropChoices ==
  { {}, {"centerLon", "centerLat"}, {"centerLon"}, {"minLon"}, {"minLat"}, {"maxLon"}, {"maxLat"},
    {"minLon", "minLat", "maxLon", "maxLat"} }

Headers == { Without(h, d) : h \in FullHeaders, d \in DropChoices }

HeaderReads ==
  { [kind |-> "header", header |-> h] : h \in Headers }
    \cup { [kind |-> "null"] }
    \cup { [kind |-> "throw", message |-> m] : m \in {"Wrong magic number for PMTiles archive", "ENOENT"} }

MetadataLoads ==
  { [kind |-> "metadata", metadata |-> m] :
      m \in { [name |-> "orchard"],
              [vector_layers |-> <<>>],
              [vector_layers |-> << [id |-> "trees"] >>],
              [vector_layers |-> << [id |-> "blocks"], [id |-> "rows"] >>] } }
    \cup { [kind |-> "null"] }
    \cup { [kind |-> "throw", message |-> m] : m \in {"Wrong magic number for PMTiles archive", "Failed to load PMTiles file"} }

VARIABLES
  vIn,       \* what reading the header of the file under validation gives
  vLog,      \* the validatePMTilesFile call made: << [rd, result] >>, or << >>
  lIn,       \* what loading the archive's header and metadata gives
  lLog       \* the validatePMTiles call made: << [ld, result] >>, or << >>

valVars == <<vIn, vLog, lIn, lLog>>

ValInit ==
  /\ vIn \in HeaderReads
  /\ lIn \in MetadataLoads
  /\ vLog = <<>>
  /\ lLog = <<>>

\* no validator call is under study
ValIdle ==
  /\ vIn = [kind |-> "null"]
  /\ lIn = [kind |-> "null"]
  /\ vLog = <<>>
  /\ lLog = <<>>

(***************************************************************************)
(* Tile route GET /api/tiles/[orchard]/[z]/[x]/[y] (mbtiles)               *)
(***************************************************************************)
MBTILES_PATHS ==
  [manytrees |-> "public/orchards/manytreesorchard/manytrees.mbtiles",
   washington |-> "public/orchards/washington/tiles/orthomap.mbtiles"]

MaxTileZoom == 2

\* MBTILES_PATHS is a plain object literal, so MBTILES_PATHS[name] is also
\* defined (an inherited function or object, never a string) for the member
\* names of Object.prototype
ObjectPrototypeKeys == {"constructor", "__proto__"}

\* the requests made: the known archives, an unknown identifier and an
\* inherited member name; every zoom and row up to the deepest level, and the
\* columns 0..MaxTileZoom (in and out of range at the shallow levels)
TileOrchards == DOMAIN MBTILES_PATHS \cup {"oregon", "constructor"}
TileZooms == 0..MaxTileZoom
TileCoords == 0..(2^MaxTileZoom - 1)
TileColumns == 0..MaxTileZoom

\* const mbtilesPath = MBTILES_PATHS[orchard]
pathOf(orchard) ==
  IF orchard \in DOMAIN MBTILES_PATHS
  THEN [kind |-> "string", path |-> MBTILES_PATHS[orchard]]
  ELSE IF orchard \in ObjectPrototypeKeys
  THEN [kind |-> "inherited"]
  ELSE [kind |-> "undefined"]

\* leading bytes of stored tiles: PNG, JPEG, WEBP ("RI"), gzip, a blob whose
\* first byte alone is PNG's, a one-byte blob and an empty blob
TileBlobs ==
  << <<137, 80, 78, 71>>, <<255, 216, 255>>, <<82, 73, 70, 70>>, <<31, 139, 8>>,
     <<137, 0, 80>>, <<255>>, <<>> >>

\* The tiles table of each archive (a sparse pyramid): the archive files are
\* immutable inputs of the route.  storedKeys are the (zoom_level,
\* tile_column, tile_row) keys that have a row; tile_data is << blob >>, or
\* << >> for a row whose tile_data is NULL.
storedKeys(path) ==
  { k \in TileZooms \X TileCoords \X TileCoords :
      /\ k[2] < 2^k[1]
      /\ k[3] < 2^k[1]
      /\ ~(path = MBTILES_PATHS.washington /\ k[2] = k[3] /\ k[1] > 0) }

tileRowAt(k) ==
  [zoom_level |-> k[1], tile_column |-> k[2], tile_row |-> k[3],
   tile_data |->
     LET b == (k[2] + 2 * k[3] + k[1]) % (Len(TileBlobs) + 1)
     IN IF b = Len(TileBlobs) THEN <<>> ELSE << TileBlobs[b + 1] >>]

TileRows(path) == { tileRowAt(k) : k \in storedKeys(path) }

\* SELECT tile_data FROM tiles WHERE zoom_level = ? AND tile_column = ? AND
\* tile_row = ?: the rows of the archive with that key
selectTile(path, zoom, column, row) ==
  { tileRowAt(k) : k \in {<<zoom, column, row>>} \cap storedKeys(path) }

TileClients == {"a", "b"}

VARIABLES
  scheme,    \* per archive, the row convention its producer used: "xyz" | "tms"
  opens,     \* per archive, whether sqlite can open its file and read its tiles table
  tileReq,   \* the last tile request answered: << [orchard, z, x, y] >>, or << >>
  tileQuery, \* the SQL lookup that request issued: << [path, zoom, column, row] >>
  tileResp,  \* its response: << [status, ...] >>
  flight,    \* per client, its request in flight with the handler's locals, or << >>
  seen       \* the first answer client "a" got: << [req, resp, again] >>, or << >>

tileVars == <<scheme, opens, tileReq, tileQuery, tileResp, flight, seen>>

\* tmsY kept in a variable of the module, which holds the row of the last
\* lookup any request issued
tmsYOf_Shared(orchard, zoom, tileY) ==
  IF tileQuery # <<>> THEN tileQuery[1].row ELSE tileY

\* const tmsY = tileY
tmsYOf(orchard, zoom, tileY) == tileY

\* only the first byte is compared
contentTypeOf_FirstByte(tileData) ==
  IF Len(tileData) >= 1 /\ tileData[1] = 137 THEN "image/png"
  ELSE IF Len(tileData) >= 1 /\ tileData[1] = 255 THEN "image/jpeg"
  ELSE IF Len(tileData) >= 1 /\ tileData[1] = 82 THEN "image/webp"
  ELSE "application/octet-stream"

\* tileData[0] and tileData[1] are undefined beyond the blob's length
contentTypeOf(tileData) ==
  IF Len(tileData) >= 2 /\ tileData[1] = 137 /\ tileData[2] = 80 THEN "image/png"
  ELSE IF Len(tileData) >= 2 /\ tileData[1] = 255 /\ tileData[2] = 216 THEN "image/jpeg"
  ELSE IF Len(tileData) >= 2 /\ tileData[1] = 82 /\ tileData[2] = 73 THEN "image/webp"
  ELSE "application/octet-stream"

TileInit ==
  /\ scheme \in [DOMAIN MBTILES_PATHS -> {"xyz", "tms"}]
  /\ opens \in [DOMAIN MBTILES_PATHS -> BOOLEAN]
  /\ tileReq = <<>>
  /\ tileQuery = <<>>
  /\ tileResp = <<>>
  /\ flight = [c \in TileClients |-> <<>>]
  /\ seen = <<>>

\* no tile request is under study
TileIdle ==
  /\ scheme = [o \in DOMAIN MBTILES_PATHS |-> "xyz"]
  /\ opens = [o \in DOMAIN MBTILES_PATHS |-> TRUE]
  /\ tileReq = <<>>
  /\ tileQuery = <<>>
  /\ tileResp = <<>>
  /\ flight = [c \in TileClients |-> <<>>]
  /\ seen = <<>>

(***************************************************************************)
(* Tree store: the trees table and the /api/trees routes                   *)
(***************************************************************************)
\* the orchards a tree's orchard_id may reference
Orchards == {"washington", "oregon"}

\* String.prototype.padStart(n, c)
RECURSIVE padStart(_, _, _)
padStart(s, n, c) == IF Len(s) >= n THEN s ELSE padStart(<<c>> \o s, n, c)

DigitText == <<"0","1","2","3","4","5","6","7","8","9">>

\* String(position) for a non-negative integer
RECURSIVE digitsOf(_)
digitsOf(n) ==
  IF n < 10 THEN <<DigitText[n + 1]>>
  ELSE digitsOf(n \div 10) \o <<DigitText[(n % 10) + 1]>>

\* `${orchardId}-R${paddedRow}-P${paddedPosition}`
generateTreeId(orchardId, rowId, position) ==
  <<orchardId, "-", "R">> \o padStart(rowId, 2, "0")
    \o <<"-", "P">> \o padStart(digitsOf(position), 3, "0")

\* the columns of trees; a nullable column holds <<>> (NULL) or <<value>>
TreeColumns == {"id", "tree_id", "orchard_id", "row_id", "position", "variety", "created_at"}

ProtectedFields == {"id", "tree_id", "orchard_id", "row_id", "position", "created_at"}

Row1 == <<"1">>
Row01 == <<"0", "1">>
TreeRowIds == {Row1, Row01}

SeedTree(id, position) ==
  [id |-> id, tree_id |-> generateTreeId("washington", Row1, position),
   orchard_id |-> <<"washington">>, row_id |-> <<Row1>>, position |-> <<position>>,
   variety |-> <<"Gala">>, created_at |-> 0]

SeedTrees == {SeedTree(1, 1), SeedTree(2, 2)}

FreeFormId == <<"x">>
UnknownTreeId == generateTreeId("washington", Row1, 3)

\* the restriction of a record to some of its fields
Restrict(rec, keys) == [f \in (DOMAIN rec) \cap keys |-> rec[f]]

\* WHERE orchard_id = .. AND row_id = .. AND position = ..
treesAt(rows, orchard_id, row_id, position) ==
  { row \in rows : /\ row.orchard_id = <<orchard_id>>
                   /\ row.row_id = <<row_id>>
                   /\ row.position = <<position>> }

\* a failed query is caught and answered false
checkDuplicateRowPosition(rows, orchard_id, row_id, position, dbOk) ==
  dbOk /\ treesAt(rows, orchard_id, row_id, position) # {}

\* id is the PRIMARY KEY, tree_id is UNIQUE NOT NULL, orchard_id REFERENCES
\* orchards(id); there is no constraint on (orchard_id, row_id, position)
violatesTreeIdUnique(rows, new) == \E row \in rows : row.tree_id = new.tree_id

violatesConstraints(rows, new) ==
  \/ violatesTreeIdUnique(rows, new)
  \/ \E row \in rows : row.id = new.id
  \/ new.tree_id = <<>>
  \/ new.orchard_id # <<>> /\ new.orchard_id[1] \notin Orchards

\* UPDATE trees SET <set> WHERE tree_id = .. RETURNING *
sqlUpdate(rows, tree_id, set) ==
  LET hit == { row \in rows : row.tree_id = tree_id }
  IN IF hit = {} THEN [ok |-> TRUE, rows |-> rows, returned |-> <<>>]
     ELSE LET old == CHOOSE row \in hit : TRUE
              new == [f \in TreeColumns |-> IF f \in DOMAIN set THEN set[f] ELSE old[f]]
          IN IF violatesConstraints(rows \ {old}, new)
             THEN [ok |-> FALSE, rows |-> rows, returned |-> <<>>]
             ELSE [ok |-> TRUE, rows |-> (rows \ {old}) \cup {new}, returned |-> <<new>>]

\* the row an INSERT of the given columns builds: SERIAL id, NULL and
\* CURRENT_TIMESTAMP defaults
insertedRow(fields, nextId) ==
  [f \in TreeColumns |->
     IF f \in DOMAIN fields THEN fields[f]
     ELSE IF f = "id" THEN nextId
     ELSE IF f = "created_at" THEN 1
     ELSE <<>>]

\* lib/db/trees.ts updateTree: undefined values are filtered, nothing else
updateTree(rows, tree_id, updates, dbOk) ==
  IF DOMAIN updates = {} THEN [rows |-> rows, result |-> <<>>]
  ELSE IF ~dbOk THEN [rows |-> rows, result |-> <<>>]
  ELSE LET u == sqlUpdate(rows, tree_id, updates)
       IN [rows |-> u.rows, result |-> u.returned]

\* lib/db/index.ts upsertTree: INSERT .. ON CONFLICT (tree_id) DO UPDATE SET
\* every supplied column but tree_id and created_at
upsertTree(rows, tree, nextId, dbOk) ==
  LET updateFields == (DOMAIN tree) \ {"tree_id", "created_at"}
      new == insertedRow(tree, nextId)
  IN IF "tree_id" \notin DOMAIN tree \/ ~dbOk \/ updateFields = {}
     THEN [rows |-> rows, result |-> <<>>]
     ELSE IF violatesTreeIdUnique(rows, new)
     THEN LET u == sqlUpdate(rows, tree.tree_id, Restrict(tree, updateFields))
          IN [rows |-> u.rows, result |-> u.returned]
     ELSE IF violatesConstraints(rows, new)
     THEN [rows |-> rows, result |-> <<>>]
     ELSE [rows |-> rows \cup {new}, result |-> <<new>>]

\* DELETE FROM trees WHERE tree_id = ..
deleteTree(rows, tree_id, dbOk) ==
  IF dbOk /\ (\E row \in rows : row.tree_id = tree_id)
  THEN [rows |-> { row \in rows : row.tree_id # tree_id }, result |-> TRUE]
  ELSE [rows |-> rows, result |-> FALSE]

TreeClients == {"t1", "t2"}

\* request bodies; a field the caller left out is absent from the record
CreateBody(row_id, position) ==
  [orchard_id |-> "washington", row_id |-> row_id, position |-> position,
   variety |-> "Fuji"]

CreateRequests ==
  { [op |-> "create", session |-> TRUE, body |-> CreateBody(r, p)] :
      r \in TreeRowIds, p \in {0, 1, 3} }
  \cup { [op |-> "create", session |-> FALSE, body |-> CreateBody(Row1, 3)],
         [op |-> "create", session |-> TRUE,
          body |-> [orchard_id |-> "washington", position |-> 3]] }

UpdateBodies ==
  { [variety |-> <<"Fuji">>],
    [variety |-> <<"Fuji">>, orchard_id |-> <<"oregon">>, position |-> <<2>>],
    [tree_id |-> FreeFormId, created_at |-> 9] }

PutRequests ==
  { [op |-> "put", session |-> TRUE, tree_id |-> t, body |-> b] :
      t \in {SeedTree(1, 1).tree_id, UnknownTreeId}, b \in UpdateBodies }
  \cup { [op |-> "put", session |-> FALSE, tree_id |-> SeedTree(1, 1).tree_id,
          body |-> [variety |-> <<"Fuji">>]] }

\* PUT /api/trees/[id]: the id is any text of the caller
UpsertBodies ==
  { [variety |-> <<"Fuji">>],
    [orchard_id |-> <<"washington">>, row_id |-> <<Row1>>, position |-> <<2>>,
     id |-> 2, created_at |-> 9] }

UpsertRequests ==
  { [op |-> "upsert", session |-> s, id |-> t, body |-> b] :
      s \in BOOLEAN, t \in {SeedTree(1, 1).tree_id, FreeFormId}, b \in UpsertBodies }

DeleteRequests ==
  { [op |-> "delete", session |-> TRUE, tree_id |-> t] :
      t \in {SeedTree(1, 1).tree_id, UnknownTreeId} }
  \cup { [op |-> "delete", session |-> FALSE, tree_id |-> SeedTree(1, 1).tree_id] }

\* bulk-update items: row_id and position find the tree, the rest is applied
BulkItems ==
  { [row_id |-> Row1, position |-> 1, variety |-> <<"Fuji">>],
    [row_id |-> Row1, position |-> 2, orchard_id |-> <<"oregon">>],
    [row_id |-> Row1, position |-> 3, variety |-> <<"Fuji">>],
    [row_id |-> Row1, position |-> 1] }

MaxBatch == 2
Batches == UNION { [1..n -> BulkItems] : n \in 1..MaxBatch }

BulkRequests ==
  { [op |-> "bulk", session |-> TRUE,
     body |-> [orchard_id |-> "washington", updates |-> b]] : b \in Batches }
  \cup { [op |-> "bulk", session |-> FALSE,
          body |-> [orchard_id |-> "washington",
                    updates |-> << [row_id |-> Row1, position |-> 1, variety |-> <<"Fuji">>] >>]],
         [op |-> "bulk", session |-> TRUE,
          body |-> [updates |-> << [row_id |-> Row1, position |-> 1, variety |-> <<"Fuji">>] >>]],
         [op |-> "bulk", session |-> TRUE,
          body |-> [orchard_id |-> "washington", updates |-> <<>>]],
         [op |-> "bulk", session |-> TRUE,
          body |-> [orchard_id |-> "washington",
                    updates |-> << [position |-> 1, variety |-> <<"Fuji">>] >>]] }

\* one bulk update is under way at a time, next to a request of any kind
BulkClient == "t1"

VARIABLES
  trees,     \* the rows of the trees table
  serial,    \* the next value of the id sequence
  tpc,       \* per client: where its handler stands
  treq,      \* its request: << request >>
  tloc,      \* the handler's locals: << [i, updated, errors, ...] >>
  tresp      \* its response: << [status, ...] >>

treeVars == <<trees, serial, tpc, treq, tloc, tresp>>

TreeInit ==
  /\ trees = SeedTrees
  /\ serial = 3
  /\ tpc = [c \in TreeClients |-> "idle"]
  /\ treq = [c \in TreeClients |-> <<>>]
  /\ tloc = [c \in TreeClients |-> <<>>]
  /\ tresp = [c \in TreeClients |-> <<>>]

(***************************************************************************)
(* Orchard page: draggable tree markers                                    *)
(***************************************************************************)
\* the trees on the map, the places a marker can be, and the drags under way
MapTrees == {"m1", "m2"}
Places == {"a", "b", "c"}
Drags == {"d1", "d2"}

VARIABLES
  treePos,       \* the trees state: each tree's lat/lng
  isDragging,    \* the isDragging state
  dragStartPos,  \* dragStartPos.current: <<>> for null, or << place >>
  shownPos,      \* where the marker now on the map for each tree stands
  drags          \* per drag: <<>>, or << [tree, phase, live, from, to] >>

dragVars == <<treePos, isDragging, dragStartPos, shownPos, drags>>

DragInit ==
  /\ treePos = [m \in MapTrees |-> IF m = "m1" THEN "a" ELSE "b"]
  /\ isDragging = FALSE
  /\ dragStartPos = <<>>
  /\ shownPos = treePos
  /\ drags = [d \in Drags |-> <<>>]

pageVars == <<treeVars, dragVars>>

(***************************************************************************)
(* Upload flow POST /api/orchards/create                                   *)
(***************************************************************************)
UpperCase ==
  <<"A","B","C","D","E","F","G","H","I","J","K","L","M",
    "N","O","P","Q","R","S","T","U","V","W","X","Y","Z">>
LowerCase ==
  <<"a","b","c","d","e","f","g","h","i","j","k","l","m",
    "n","o","p","q","r","s","t","u","v","w","x","y","z">>
DigitChars == {"0","1","2","3","4","5","6","7","8","9"}

\* String.prototype.toLowerCase, per character
toLowerCase(c) ==
  IF \E i \in DOMAIN UpperCase : UpperCase[i] = c
  THEN LowerCase[CHOOSE i \in DOMAIN UpperCase : UpperCase[i] = c]
  ELSE c

isSlugChar_WithDotsAndSlashes(c) ==
  c \in DigitChars \cup {".", "/"} \/ (\E i \in DOMAIN LowerCase : LowerCase[i] = c)

\* [a-z0-9]
isSlugChar(c) == c \in DigitChars \/ (\E i \in DOMAIN LowerCase : LowerCase[i] = c)

RECURSIVE skipNonSlug(_)
skipNonSlug(s) ==
  IF s = <<>> \/ isSlugChar(Head(s)) THEN s ELSE skipNonSlug(Tail(s))

\* .replace(/[^a-z0-9]+/g, '-')
RECURSIVE replaceNonSlugRuns(_)
replaceNonSlugRuns(s) ==
  IF s = <<>> THEN <<>>
  ELSE IF isSlugChar(Head(s)) THEN <<Head(s)>> \o replaceNonSlugRuns(Tail(s))
  ELSE <<"-">> \o replaceNonSlugRuns(skipNonSlug(Tail(s)))

\* .replace(/^-+|-+$/g, '')
RECURSIVE trimLeadingHyphens(_)
trimLeadingHyphens(s) ==
  IF s # <<>> /\ Head(s) = "-" THEN trimLeadingHyphens(Tail(s)) ELSE s

RECURSIVE trimTrailingHyphens(_)
trimTrailingHyphens(s) ==
  IF s # <<>> /\ s[Len(s)] = "-"
  THEN trimTrailingHyphens(SubSeq(s, 1, Len(s) - 1))
  ELSE s

\* const orchardId = name.toLowerCase().replace(...).replace(...)
orchardIdOf(name) ==
  trimTrailingHyphens(trimLeadingHyphens(
    replaceNonSlugRuns([i \in DOMAIN name |-> toLowerCase(name[i])])))

\* the segments of a "/"-separated text, empty segments dropped
RECURSIVE segmentsOf(_, _)
segmentsOf(s, cur) ==
  IF s = <<>> THEN (IF cur = <<>> THEN <<>> ELSE <<cur>>)
  ELSE IF Head(s) = "/"
  THEN (IF cur = <<>> THEN <<>> ELSE <<cur>>) \o segmentsOf(Tail(s), <<>>)
  ELSE segmentsOf(Tail(s), Append(cur, Head(s)))

\* path.join's normalisation: "." is dropped, ".." removes the segment before
\* it (and is kept where there is none)
RECURSIVE normalize(_, _)
normalize(segs, out) ==
  IF segs = <<>> THEN out
  ELSE IF Head(segs) = <<".">> THEN normalize(Tail(segs), out)
  ELSE IF Head(segs) = <<".", ".">>
  THEN normalize(Tail(segs),
         IF out # <<>> /\ out[Len(out)] # <<".", ".">>
         THEN SubSeq(out, 1, Len(out) - 1)
         ELSE Append(out, <<".", ".">>))
  ELSE normalize(Tail(segs), Append(out, Head(segs)))

\* path.join(cwd, 'public', 'orchards', orchardId, 'tiles', 'orthomap.pmtiles'),
\* relative to the working directory
finalPathOf(id) ==
  normalize(<< <<"public">>, <<"orchards">> >> \o segmentsOf(id, <<>>)
              \o << <<"tiles">>, <<"orthomap.pmtiles">> >>, <<>>)

\* insertOrchard's first checks: !id || !name || !location, and the two centers
insertFieldsMissing(row) ==
  \/ row.id = <<>> \/ row.name = <<>> \/ row.location = ""
  \/ "center_lat" \notin DOMAIN row \/ "center_lng" \notin DOMAIN row

\* pmtilesFile.name.toLowerCase().endsWith('.pmtiles')
hasPmtilesExtension(ext) == ext \in {".pmtiles", ".PMTILES", ".PMTiles"}

MaxUploadMB == 2048
LargeUploadMB == 500

\* the entry updateOrchardsConfig appends to the orchards registry (lib/orchards.ts)
newOrchardConfig(orchardId, config) ==
  [id |-> orchardId,
   name |-> config.name,
   location |-> config.location,
   center |-> <<config.center.lng, config.center.lat>>,
   bounds |-> config.bounds,
   defaultZoom |-> Max(Zoom(17), config.minZoom),
   minZoom |-> config.minZoom,
   maxZoom |-> config.maxZoom,
   tileMinZoom |-> config.minZoom,
   tileMaxZoom |-> config.maxZoom,
   orthoPmtilesPath |-> <<"/orchards/", orchardId, "/tiles/orthomap.pmtiles">>]

(***************************************************************************)
(* Upload requests and their inputs                                        *)
(***************************************************************************)
Reqs == {"r1", "r2"}

NameOak == <<"O","a","k"," ","1">>
NameOakSlug == <<"o","a","k","-","1","!">>
NameElm == <<"E","l","m">>
NameWashington == <<"W","a","s","h","i","n","g","t","o","n">>
NamePunct == <<"?","!">>

OrchardHeader(t, z) ==
  [tileType |-> t, minZoom |-> Zoom(14), maxZoom |-> Zoom(z),
   minLon |-> Deg(-124), minLat |-> Deg(48), maxLon |-> Deg(-122), maxLat |-> Deg(50),
   centerLon |-> Deg(-123), centerLat |-> Deg(49)]

\* uploaded files: the name's extension, the size, and what reading the
\* header of these bytes gives
FilePng22 ==
  [ext |-> ".pmtiles", sizeMB |-> 600,
   read |-> [kind |-> "header", header |-> OrchardHeader(2, 22)]]
FileMvt18 ==
  [ext |-> ".PMTILES", sizeMB |-> 10,
   read |-> [kind |-> "header", header |-> OrchardHeader(1, 18)]]
FileJpeg25 ==
  [ext |-> ".pmtiles", sizeMB |-> 10,
   read |-> [kind |-> "header", header |-> OrchardHeader(3, 25)]]
FileCorrupt ==
  [ext |-> ".pmtiles", sizeMB |-> 10,
   read |-> [kind |-> "throw", message |-> "Wrong magic number for PMTiles archive"]]
FileMbtiles ==
  [ext |-> ".mbtiles", sizeMB |-> 10,
   read |-> [kind |-> "throw", message |-> "Wrong magic number for PMTiles archive"]]
FileHuge ==
  [ext |-> ".pmtiles", sizeMB |-> 3000,
   read |-> [kind |-> "header", header |-> OrchardHeader(2, 22)]]
FileSeed ==
  [ext |-> ".pmtiles", sizeMB |-> 900,
   read |-> [kind |-> "header", header |-> OrchardHeader(2, 23)]]

Input(session, name, location, file) ==
  [session |-> session, name |-> name, location |-> location, file |-> file]

UploadInputs ==
  { Input(TRUE, n, "Sequim, WA", <<f>>) :
      n \in {NameOak, NameOakSlug, NameElm, NameWashington},
      f \in {FilePng22, FileMvt18, FileJpeg25, FileCorrupt} }
  \cup { Input(FALSE, NameOak, "Sequim, WA", <<FilePng22>>),
         Input(TRUE, <<>>, "Sequim, WA", <<FilePng22>>),
         Input(TRUE, NameOak, "", <<FilePng22>>),
         Input(TRUE, NameOak, "Sequim, WA", <<>>),
         Input(TRUE, NamePunct, "Sequim, WA", <<FilePng22>>),
         Input(TRUE, NameElm, "Sequim, WA", <<FileMbtiles>>),
         Input(TRUE, NameElm, "Sequim, WA", <<FileHuge>>) }

OrchardIds == { orchardIdOf(i.name) : i \in UploadInputs } \ {<<>>}

\* names of any characters, the ones a path is built from included
MaxNameLen == 3
SanAlphabet == {"A", "b", "7", "-", ".", "/", " "}
SanNames == UNION { [1..n -> SanAlphabet] : n \in 0..MaxNameLen }
SanIds == { orchardIdOf(n) : n \in SanNames } \ {<<>>}
SanReq == "r1"

MaxClock == 1

\* the orchards table and the registry as the repository ships them
SeedRow ==
  [id |-> orchardIdOf(NameWashington), name |-> NameWashington,
   location |-> "Washington State, USA",
   center_lat |-> Deg(48), center_lng |-> Deg(-123)]

SeedConfig ==
  [id |-> orchardIdOf(NameWashington),
   name |-> NameWashington,
   location |-> "Washington State, USA",
   center |-> <<Deg(-123), Deg(48)>>,
   bounds |-> [minLng |-> Deg(-124), minLat |-> Deg(48),
               maxLng |-> Deg(-122), maxLat |-> Deg(50)],
   defaultZoom |-> Zoom(18),
   minZoom |-> Zoom(5),
   maxZoom |-> ZoomCap,
   tileMinZoom |-> Zoom(5),
   tileMaxZoom |-> Zoom(23),
   orthoPmtilesPath |-> <<"/orchards/", orchardIdOf(NameWashington), "/tiles/orthomap.pmtiles">>]

VARIABLES
  now,       \* Date.now()
  db,        \* the rows of the orchards table
  tmp,       \* tmp/temp-<t>.pmtiles, by t: << >> (no file) or
             \* << [by |-> the request whose write created it, file |-> bytes] >>
  store,     \* public/orchards/<id>/tiles/orthomap.pmtiles, by id: << >> or << bytes >>
  registry,  \* the entries of the orchards object in lib/orchards.ts, in file order
  pc,        \* where each request is in POST
  inp,       \* its form data: << input >>
  temp,      \* its tempFilePath: << t >>
  val,       \* its validation result: << result >>
  snap,      \* the registry content updateOrchardsConfig read: << entries >>
  resp       \* its response: << [status, ...] >>

upVars == <<now, db, tmp, store, registry, pc, inp, temp, val, snap, resp>>

UpInit ==
  /\ now = 0
  /\ db = {SeedRow}
  /\ tmp = [t \in 0..MaxClock |-> <<>>]
  /\ store = [id \in OrchardIds |-> IF id = SeedRow.id THEN <<FileSeed>> ELSE <<>>]
  /\ registry = <<SeedConfig>>
  /\ pc = [r \in Reqs |-> "idle"]
  /\ inp = [r \in Reqs |-> <<>>]
  /\ temp = [r \in Reqs |-> <<>>]
  /\ val = [r \in Reqs |-> <<>>]
  /\ snap = [r \in Reqs |-> <<>>]
  /\ resp = [r \in Reqs |-> <<>>]

idOf(r) == orchardIdOf(inp[r][1].name)
fileOf(r) == inp[r][1].file[1]

\* SELECT id FROM orchards WHERE id = ... ; a failed query is caught and
\* answered false
orchardExists(id, dbOk) == dbOk /\ (\E row \in db : row.id = id)

\* orchards.id is the table's PRIMARY KEY
violatesPrimaryKey_NoKey(rows, id) == FALSE

violatesPrimaryKey(rows, id) == \E row \in rows : row.id = id

\* the exception path of the outer try: status 500 with the error's message
failure(message) ==
  [status |-> 500, error |-> "Failed to create orchard", details |-> message]

validationFailed_Status200(v) == [status |-> 200, error |-> v.error]

validationFailed(v) == [status |-> 400, error |-> v.error]

sizeWarnings(file) ==
  IF file.sizeMB > LargeUploadMB
  THEN << <<"Large file detected (", ToString(file.sizeMB), ".00MB). Upload may take some time.">> >>
  ELSE <<>>

validationWarnings(v) == IF "warnings" \in DOMAIN v THEN v.warnings ELSE <<>>

created(r) ==
  LET v == val[r][1]
      warnings == sizeWarnings(fileOf(r)) \o validationWarnings(v)
      body == [status |-> 200, success |-> TRUE, orchardId |-> idOf(r),
               metadata |-> v.metadata]
  IN IF warnings = <<>> THEN body
     ELSE [f \in DOMAIN body \cup {"warnings"} |->
             IF f = "warnings" THEN warnings ELSE body[f]]

\* leave the handler before the try block: respond
Return(r, response) ==
  /\ resp' = [resp EXCEPT ![r] = <<response>>]
  /\ pc' = [pc EXCEPT ![r] = "done"]

\* leave the try block (return or throw): the finally block runs first
Leave(r, response) ==
  /\ resp' = [resp EXCEPT ![r] = <<response>>]
  /\ pc' = [pc EXCEPT ![r] = "finally"]

Goto(r, label) ==
  /\ pc' = [pc EXCEPT ![r] = label]
  /\ UNCHANGED resp

\* middleware.ts: the routes that need a signed-in user, as path segments
protectedPaths == << <<"orchards", "new">>, <<"api", "orchards">> >>

\* pathname.startsWith(path), on whole segments
startsWith(pathname, path) ==
  /\ Len(pathname) >= Len(path)
  /\ SubSeq(pathname, 1, Len(path)) = path

isProtectedRoute(pathname) ==
  \E k \in DOMAIN protectedPaths : startsWith(pathname, protectedPaths[k])

\* the pathname of the upload route
CreatePath == <<"api", "orchards", "create">>

\* NextResponse.redirect(loginUrl): a temporary redirect, no JSON body
loginRedirect(pathname) ==
  [status |-> 307, location |-> <<"login">>, callbackUrl |-> pathname]

\* the middleware's answer, <<>> for NextResponse.next()
middleware(pathname, isAuthenticated) ==
  IF isProtectedRoute(pathname) /\ ~isAuthenticated
  THEN <<loginRedirect(pathname)>>
  ELSE IF pathname = <<"login">> /\ isAuthenticated
  THEN <<[status |-> 307, location |-> <<>>]>>
  ELSE <<>>

\* lines 44-87: session, form fields, orchard id; the middleware runs first
Submit(r, i) ==
  /\ pc[r] = "idle"
  /\ inp' = [inp EXCEPT ![r] = <<i>>]
  /\ IF middleware(CreatePath, i.session) # <<>>
     THEN Return(r, middleware(CreatePath, i.session)[1])
     ELSE IF ~i.session
     THEN Return(r, [status |-> 401, error |-> "Unauthorized. Please sign in."])
     ELSE IF i.name = <<>> \/ i.location = "" \/ i.file = <<>>
     THEN Return(r, [status |-> 400, error |-> "Missing required fields"])
     ELSE IF orchardIdOf(i.name) = <<>>
     THEN Return(r, [status |-> 400,
            error |-> "Invalid orchard name. Please use alphanumeric characters."])
     ELSE Goto(r, "exists")
  /\ UNCHANGED <<valVars, tileVars, pageVars>>
  /\ UNCHANGED <<now, db, tmp, store, registry, temp, val, snap>>

Begin(r) == \E i \in UploadInputs : Submit(r, i)

\* lines 89-126: the existence check, then extension and size
CheckExists(r) ==
  /\ pc[r] = "exists"
  /\ \E dbOk \in BOOLEAN :
       IF orchardExists(idOf(r), dbOk)
       THEN Return(r, [status |-> 409, error |-> "Orchard already exists"])
       ELSE IF ~hasPmtilesExtension(fileOf(r).ext)
       THEN Return(r, [status |-> 400,
              error |-> "Invalid file type. Please upload a .pmtiles file."])
       ELSE IF fileOf(r).sizeMB > MaxUploadMB
       THEN Return(r, [status |-> 413, error |-> "File too large"])
       ELSE Goto(r, "mktemp")
  /\ UNCHANGED <<valVars, tileVars, pageVars>>
  /\ UNCHANGED <<now, db, tmp, store, registry, inp, temp, val, snap>>

\* lines 128-135: tempFilePath = tmp/temp-${Date.now()}.pmtiles
MakeTemp(r) ==
  /\ pc[r] = "mktemp"
  /\ temp' = [temp EXCEPT ![r] = <<now>>]
  /\ Goto(r, "write")
  /\ UNCHANGED <<valVars, tileVars, pageVars>>
  /\ UNCHANGED <<now, db, tmp, store, registry, inp, val, snap>>

\* line 138: fs.writeFile(path, data) creates the file when the path is free
\* and replaces the contents of the file already there otherwise
writeFile(files, t, r, data) ==
  [files EXCEPT ![t] =
     << [by |-> IF files[t] = <<>> THEN r ELSE files[t][1].by, file |-> data] >>]

\* line 138: fs.writeFile(tempFilePath, fileBuffer)
WriteTemp(r) ==
  /\ pc[r] = "write"
  /\ \E ok \in BOOLEAN :
       IF ok
       THEN /\ tmp' = writeFile(tmp, temp[r][1], r, fileOf(r))
            /\ Goto(r, "validate")
       ELSE /\ UNCHANGED tmp
            /\ Leave(r, failure("EIO: i/o error, write"))
  /\ UNCHANGED <<valVars, tileVars, pageVars>>
  /\ UNCHANGED <<now, db, store, registry, inp, temp, val, snap>>

\* lines 140-161: validate whatever is at tempFilePath now
Validate(r) ==
  /\ pc[r] = "validate"
  /\ LET at == tmp[temp[r][1]]
         rd == IF at = <<>>
               THEN [kind |-> "throw", message |-> "ENOENT: no such file or directory"]
               ELSE at[1].file.read
         v == validatePMTilesFile(rd)
     IN /\ val' = [val EXCEPT ![r] = <<v>>]
        /\ IF ~v.valid
           THEN Leave(r, validationFailed(v))
           ELSE IF "metadata" \notin DOMAIN v
           THEN Leave(r, [status |-> 400,
                  error |-> <<"Could not extract metadata from PMTiles file">>])
           ELSE Goto(r, "rename")
  /\ UNCHANGED <<valVars, tileVars, pageVars>>
  /\ UNCHANGED <<now, db, tmp, store, registry, inp, temp, snap>>

\* lines 163-169: mkdir of the orchard's tiles directory, then
\* fs.rename(tempFilePath, finalPath), which replaces a file already there
Rename(r) ==
  /\ pc[r] = "rename"
  /\ \E ok \in BOOLEAN :
       IF ok /\ tmp[temp[r][1]] # <<>>
       THEN /\ store' = [store EXCEPT ![idOf(r)] = <<tmp[temp[r][1]][1].file>>]
            /\ tmp' = [tmp EXCEPT ![temp[r][1]] = <<>>]
            /\ Goto(r, "insert")
       ELSE /\ UNCHANGED <<store, tmp>>
            /\ Leave(r, failure(IF ok THEN "ENOENT: no such file or directory, rename"
                                      ELSE "EACCES: permission denied, rename"))
  /\ UNCHANGED <<valVars, tileVars, pageVars>>
  /\ UNCHANGED <<now, db, registry, inp, temp, val, snap>>

\* the row the handler passes to insertOrchard
rowOf(r) ==
  [id |-> idOf(r), name |-> inp[r][1].name, location |-> inp[r][1].location,
   center_lat |-> val[r][1].metadata.center.lat,
   center_lng |-> val[r][1].metadata.center.lng]

\* insertOrchard, up to its existence check (lib/db/orchards.ts 46-61)
InsertCheck(r) ==
  /\ pc[r] = "insert"
  /\ \E dbOk \in BOOLEAN :
       IF insertFieldsMissing(rowOf(r))
       THEN Leave(r, failure("Failed to insert orchard: Missing required fields"))
       ELSE IF orchardExists(idOf(r), dbOk)
       THEN Leave(r, failure("Failed to insert orchard: Orchard with id already exists"))
       ELSE Goto(r, "sql")
  /\ UNCHANGED <<valVars, tileVars, pageVars>>
  /\ UNCHANGED <<now, db, tmp, store, registry, inp, temp, val, snap>>

\* insertOrchard's INSERT ... RETURNING * (lib/db/orchards.ts 63-78)
InsertSql(r) ==
  /\ pc[r] = "sql"
  /\ \E dbOk \in BOOLEAN :
       IF ~dbOk
       THEN /\ UNCHANGED db
            /\ Leave(r, failure("Failed to insert orchard: connection error"))
       ELSE IF violatesPrimaryKey(db, idOf(r))
       THEN /\ UNCHANGED db
            /\ Leave(r, failure("Failed to insert orchard: duplicate key value violates unique constraint"))
       ELSE /\ db' = db \cup {rowOf(r)}
            /\ Goto(r, "cfgread")
  /\ UNCHANGED <<valVars, tileVars, pageVars>>
  /\ UNCHANGED <<now, tmp, store, registry, inp, temp, val, snap>>

\* updateOrchardsConfig: read lib/orchards.ts and find the orchards object
ConfigRead(r) ==
  /\ pc[r] = "cfgread"
  /\ \E ok \in BOOLEAN :
       IF ok
       THEN /\ snap' = [snap EXCEPT ![r] = <<registry>>]
            /\ Goto(r, "cfgwrite")
       ELSE /\ UNCHANGED snap
            /\ Leave(r, failure("Could not find orchards object in orchards.ts"))
  /\ UNCHANGED <<valVars, tileVars, pageVars>>
  /\ UNCHANGED <<now, db, tmp, store, registry, inp, temp, val>>

\* updateOrchardsConfig: write the content read, with the new entry appended;
\* then the success response
ConfigWrite(r) ==
  /\ pc[r] = "cfgwrite"
  /\ \E ok \in BOOLEAN :
       IF ok
       THEN /\ registry' = snap[r][1] \o
                   << newOrchardConfig(idOf(r),
                        [name |-> inp[r][1].name, location |-> inp[r][1].location,
                         center |-> val[r][1].metadata.center,
                         bounds |-> val[r][1].metadata.bounds,
                         minZoom |-> val[r][1].metadata.minZoom,
                         maxZoom |-> val[r][1].metadata.maxZoom,
                         tileType |-> val[r][1].metadata.tileType]) >>
            /\ Leave(r, created(r))
       ELSE /\ UNCHANGED registry
            /\ Leave(r, failure("EROFS: read-only file system, write"))
  /\ UNCHANGED <<valVars, tileVars, pageVars>>
  /\ UNCHANGED <<now, db, tmp, store, inp, temp, val, snap>>

\* a cleanup that never removes the file
unlink_Skipped(files, t) == files

\* line 209: fs.unlink(path): the path is free afterwards; the error for a
\* path that is free already is caught and ignored (lines 210-212)
unlink(files, t) == [files EXCEPT ![t] = <<>>]

\* lines 206-213: unlink(tempFilePath), errors ignored; then the response
Finally(r) ==
  /\ pc[r] = "finally"
  /\ tmp' = unlink(tmp, temp[r][1])
  /\ pc' = [pc EXCEPT ![r] = "done"]
  /\ UNCHANGED <<valVars, tileVars, pageVars>>
  /\ UNCHANGED <<now, db, store, registry, inp, temp, val, snap, resp>>

\* time passes
Tick ==
  /\ now < MaxClock
  /\ now' = now + 1
  /\ UNCHANGED <<valVars, tileVars, pageVars>>
  /\ UNCHANGED <<db, tmp, store, registry, pc, inp, temp, val, snap, resp>>

(***************************************************************************)
(* The validators applied to their inputs                                  *)
(***************************************************************************)
ValidateFile ==
  /\ vLog = <<>>
  /\ vLog' = << [rd |-> vIn, result |-> validatePMTilesFile(vIn)] >>
  /\ UNCHANGED <<vIn, lIn, lLog, tileVars, upVars, pageVars>>

LoadPMTiles ==
  /\ lLog = <<>>
  /\ lLog' = << [ld |-> lIn, result |-> validatePMTiles(lIn)] >>
  /\ UNCHANGED <<vIn, lIn, vLog, tileVars, upVars, pageVars>>

(***************************************************************************)
(* The tile route handler                                                  *)
(***************************************************************************)
\* a miss that surfaces as an error of the handler
tileNotFound_AsError(l) ==
  [status |-> 500, text |-> <<"Cannot read properties of undefined (reading 'tile_data')">>]

\* lines 59-61: the response for a lookup that resolved to null
tileNotFound(l) ==
  [status |-> 404,
   text |-> <<"Tile not found: ", ToString(l.req.z), "/", ToString(l.req.x),
              "/", ToString(l.req.y), " (TMS: ", ToString(l.tmsY), ")">>]

\* lines 84-87: the catch block
serverError(message) == [status |-> 500, text |-> <<message>>]

\* lines 17-31: the handler's locals once the parameters are read; the lookup
\* parameters exist only when mbtilesPath is a path
localsOf(orchard, zoom, tileX, tileY) ==
  [req |-> [orchard |-> orchard, z |-> zoom, x |-> tileX, y |-> tileY],
   mbtilesPath |-> pathOf(orchard),
   tmsY |-> tmsYOf(orchard, zoom, tileY)]

\* lines 34-57: what the promise around new Database(...) and db.get settles
\* to.  The Database constructor throws on a name that is not a string; an
\* archive that cannot be opened or queried rejects; a missing row and a row
\* whose tile_data is NULL resolve to null.
dbGet(l) ==
  IF l.mbtilesPath.kind # "string"
  THEN [kind |-> "reject", message |-> "String expected"]
  ELSE IF ~opens[l.req.orchard]
  THEN [kind |-> "reject", message |-> "SQLITE_CANTOPEN: unable to open database file"]
  ELSE
    LET rows == selectTile(l.mbtilesPath.path, l.req.z, l.req.x, l.tmsY)
    IN IF rows = {} \/ (\A t \in rows : t.tile_data = <<>>)
       THEN [kind |-> "null"]
       ELSE [kind |-> "data", tileData |-> (CHOOSE t \in rows : TRUE).tile_data[1]]

\* the SQL lookup the handler issues: none unless the archive was opened
lookupOf(l) ==
  IF l.mbtilesPath.kind = "string" /\ opens[l.req.orchard]
  THEN << [path |-> l.mbtilesPath.path, zoom |-> l.req.z,
           column |-> l.req.x, row |-> l.tmsY] >>
  ELSE <<>>

\* lines 19-23 and 59-87: the response of the handler with locals l
responseOf(l) ==
  IF l.mbtilesPath.kind = "undefined"
  THEN [status |-> 404, text |-> <<"Orchard '", l.req.orchard, "' not found">>]
  ELSE
    LET got == dbGet(l) IN
      IF got.kind = "reject" THEN serverError(got.message)
      ELSE IF got.kind = "null" THEN tileNotFound(l)
      ELSE [status |-> 200, body |-> got.tileData,
            contentType |-> contentTypeOf(got.tileData),
            cacheControl |-> "public, max-age=31536000, immutable",
            allowOrigin |-> "*"]

\* the route handler, run from the request to its response
GET(orchard, zoom, tileX, tileY) ==
  LET l == localsOf(orchard, zoom, tileX, tileY) IN
    /\ tileReq' = << l.req >>
    /\ tileQuery' = lookupOf(l)
    /\ tileResp' = << responseOf(l) >>
    /\ UNCHANGED <<scheme, opens, flight, seen, valVars, upVars, pageVars>>

TileRequest ==
  \E orchard \in TileOrchards, zoom \in TileZooms, tileX \in TileColumns,
     tileY \in TileCoords :
    GET(orchard, zoom, tileX, tileY)

\* The same handler under concurrent clients: it suspends at its await (line
\* 34) with its locals, and other requests run meanwhile.  Client "a" repeats
\* the request it made first; client "b" asks for tiles of the same archive,
\* zoom and column, the row of "a" included.
firstOf == IF seen # <<>> THEN seen[1].req ELSE flight["a"][1].req

\* lines 17-31: a request arrives and the handler computes its locals
Arrive(c) ==
  /\ flight[c] = <<>>
  /\ \E orchard \in TileOrchards, zoom \in TileZooms, tileX \in TileColumns,
        tileY \in TileCoords :
       /\ c = "a" /\ seen # <<>> =>
            seen[1].req = [orchard |-> orchard, z |-> zoom, x |-> tileX, y |-> tileY]
       /\ c = "b" =>
            /\ seen # <<>> \/ flight["a"] # <<>>
            /\ orchard = firstOf.orchard /\ zoom = firstOf.z /\ tileX = firstOf.x
       /\ flight' = [flight EXCEPT ![c] = << localsOf(orchard, zoom, tileX, tileY) >>]
  /\ UNCHANGED <<scheme, opens, tileReq, tileQuery, tileResp, seen, valVars, upVars, pageVars>>

\* lines 34-87: the lookup settles and the handler answers
Answer(c) ==
  /\ flight[c] # <<>>
  /\ LET l == flight[c][1] IN
       /\ tileReq' = << l.req >>
       /\ tileQuery' = lookupOf(l)
       /\ tileResp' = << responseOf(l) >>
       /\ seen' = IF c # "a" THEN seen
                  ELSE IF seen = <<>>
                  THEN << [req |-> l.req, resp |-> responseOf(l), again |-> FALSE] >>
                  ELSE << [seen[1] EXCEPT !.again = TRUE] >>
  /\ flight' = [flight EXCEPT ![c] = <<>>]
  /\ UNCHANGED <<scheme, opens, valVars, upVars, pageVars>>

(***************************************************************************)
(* The /api/trees handlers.  A handler with one database statement is one  *)
(* step; POST /api/trees and the bulk update are stepped at their awaits.  *)
(***************************************************************************)
reqOf(c) == treq[c][1]
locOf(c) == tloc[c][1]

TReturn(c, response) ==
  /\ tresp' = [tresp EXCEPT ![c] = <<response>>]
  /\ tpc' = [tpc EXCEPT ![c] = "done"]

TGoto(c, label) ==
  /\ tpc' = [tpc EXCEPT ![c] = label]
  /\ UNCHANGED tresp

unauthorized == [status |-> 401, error |-> "Unauthorized. Please sign in."]

\* !orchard_id || !row_id || position === undefined || position === null
missingCreateFields(body) ==
  \/ "orchard_id" \notin DOMAIN body
  \/ "row_id" \notin DOMAIN body
  \/ "position" \notin DOMAIN body

\* POST /api/trees up to its first query
PostTree(c) ==
  /\ tpc[c] = "idle"
  /\ \E q \in CreateRequests :
       /\ treq' = [treq EXCEPT ![c] = <<q>>]
       /\ IF ~q.session THEN TReturn(c, unauthorized)
          ELSE IF missingCreateFields(q.body)
          THEN TReturn(c, [status |-> 400, error |-> "Missing required fields"])
          ELSE IF q.body.position < 1
          THEN TReturn(c, [status |-> 400, error |-> "Invalid position"])
          ELSE TGoto(c, "duplicate")
  /\ UNCHANGED <<trees, serial, tloc>>
  /\ UNCHANGED <<valVars, tileVars, upVars, dragVars>>

\* the route's checkDuplicateRowPosition
CheckDuplicate(c) ==
  /\ tpc[c] = "duplicate"
  /\ \E dbOk \in BOOLEAN :
       LET b == reqOf(c).body
       IN IF checkDuplicateRowPosition(trees, b.orchard_id, b.row_id, b.position, dbOk)
          THEN TReturn(c, [status |-> 409, error |-> "Duplicate tree location"])
          ELSE TGoto(c, "insertTree")
  /\ UNCHANGED <<trees, serial, treq, tloc>>
  /\ UNCHANGED <<valVars, tileVars, upVars, dragVars>>

createFailed(message) ==
  [status |-> 500, error |-> "Failed to create tree", details |-> message]

\* insertTree up to its INSERT: the second duplicate check
InsertTreeCheck(c) ==
  /\ tpc[c] = "insertTree"
  /\ \E dbOk \in BOOLEAN :
       LET b == reqOf(c).body
       IN IF checkDuplicateRowPosition(trees, b.orchard_id, b.row_id, b.position, dbOk)
          THEN TReturn(c, createFailed("Failed to insert tree: Tree already exists"))
          ELSE TGoto(c, "insert")
  /\ UNCHANGED <<trees, serial, treq, tloc>>
  /\ UNCHANGED <<valVars, tileVars, upVars, dragVars>>

\* the columns insertTree passes to INSERT
insertFieldsOf(body) ==
  [tree_id |-> generateTreeId(body.orchard_id, body.row_id, body.position),
   orchard_id |-> <<body.orchard_id>>, row_id |-> <<body.row_id>>,
   position |-> <<body.position>>, variety |-> <<body.variety>>]

TreeIdKeyMessage ==
  "Failed to insert tree: duplicate key value violates unique constraint trees_tree_id_key"

\* insertTree's INSERT ... RETURNING *
InsertTreeSql(c) ==
  /\ tpc[c] = "insert"
  /\ \E dbOk \in BOOLEAN :
       LET new == insertedRow(insertFieldsOf(reqOf(c).body), serial)
       IN IF ~dbOk
          THEN /\ UNCHANGED <<trees, serial>>
               /\ TReturn(c, createFailed("Failed to insert tree: connection error"))
          ELSE /\ serial' = serial + 1
               /\ IF violatesTreeIdUnique(trees, new)
                  THEN /\ UNCHANGED trees
                       /\ TReturn(c, createFailed(TreeIdKeyMessage))
                  ELSE IF violatesConstraints(trees, new)
                  THEN /\ UNCHANGED trees
                       /\ TReturn(c, createFailed("Failed to insert tree: constraint"))
                  ELSE /\ trees' = trees \cup {new}
                       /\ TReturn(c, [status |-> 201, success |-> TRUE, tree |-> new])
  /\ UNCHANGED <<treq, tloc>>
  /\ UNCHANGED <<valVars, tileVars, upVars, dragVars>>

\* PUT of app/api/trees/[id]/[tree_id]/route.ts
PutTree(c) ==
  /\ tpc[c] = "idle"
  /\ \E q \in PutRequests, dbOk \in BOOLEAN :
       /\ treq' = [treq EXCEPT ![c] = <<q>>]
       /\ IF ~q.session
          THEN UNCHANGED trees /\ TReturn(c, unauthorized)
          ELSE LET updateData ==
                     Restrict(q.body, (DOMAIN q.body) \ (ProtectedFields \cup {"updated_at"}))
                   u == updateTree(trees, q.tree_id, updateData, dbOk)
               IN IF DOMAIN updateData = {}
                  THEN /\ UNCHANGED trees
                       /\ TReturn(c, [status |-> 400, error |-> "No valid fields to update"])
                  ELSE /\ trees' = u.rows
                       /\ IF u.result = <<>>
                          THEN TReturn(c, [status |-> 404, error |-> "Tree not found"])
                          ELSE TReturn(c, [status |-> 200, success |-> TRUE,
                                           tree |-> u.result[1]])
  /\ UNCHANGED <<serial, tloc>>
  /\ UNCHANGED <<valVars, tileVars, upVars, dragVars>>

\* the object the PUT of app/api/trees/[id]/route.ts passes to upsertTree
upsertArgOf(q) ==
  LET body == Restrict(q.body, (DOMAIN q.body) \ {"id", "tree_id", "created_at"})
  IN [f \in (DOMAIN body) \cup {"tree_id"} |-> IF f = "tree_id" THEN q.id ELSE body[f]]

\* PUT of app/api/trees/[id]/route.ts: no session is asked for
PutUpsert(c) ==
  /\ tpc[c] = "idle"
  /\ \E q \in UpsertRequests, dbOk \in BOOLEAN :
       LET u == upsertTree(trees, upsertArgOf(q), serial, dbOk)
       IN /\ treq' = [treq EXCEPT ![c] = <<q>>]
          /\ trees' = u.rows
          /\ serial' = IF dbOk THEN serial + 1 ELSE serial
          /\ IF u.result = <<>>
             THEN TReturn(c, [status |-> 500, error |-> "Failed to update tree"])
             ELSE TReturn(c, [status |-> 200, tree |-> u.result[1]])
  /\ UNCHANGED tloc
  /\ UNCHANGED <<valVars, tileVars, upVars, dragVars>>

\* DELETE of app/api/trees/[id]/[tree_id]/route.ts
DeleteTree(c) ==
  /\ tpc[c] = "idle"
  /\ \E q \in DeleteRequests, dbOk \in BOOLEAN :
       /\ treq' = [treq EXCEPT ![c] = <<q>>]
       /\ IF ~q.session
          THEN UNCHANGED trees /\ TReturn(c, unauthorized)
          ELSE LET d == deleteTree(trees, q.tree_id, dbOk)
               IN /\ trees' = d.rows
                  /\ IF d.result
                     THEN TReturn(c, [status |-> 200, success |-> TRUE])
                     ELSE TReturn(c, [status |-> 404,
                                      error |-> "Tree not found or already deleted"])
  /\ UNCHANGED <<serial, tloc>>
  /\ UNCHANGED <<valVars, tileVars, upVars, dragVars>>

\* an update item without row_id or position
malformedItem(item) == "row_id" \notin DOMAIN item \/ "position" \notin DOMAIN item

\* POST /api/trees/bulk-update up to the call of bulkUpdateTrees
BulkPost(c) ==
  /\ c = BulkClient
  /\ tpc[c] = "idle"
  /\ \E q \in BulkRequests :
       /\ treq' = [treq EXCEPT ![c] = <<q>>]
       /\ IF ~q.session
          THEN UNCHANGED tloc /\ TReturn(c, unauthorized)
          ELSE IF "orchard_id" \notin DOMAIN q.body
          THEN UNCHANGED tloc
               /\ TReturn(c, [status |-> 400, error |-> "Missing required field"])
          ELSE IF q.body.updates = <<>>
          THEN UNCHANGED tloc
               /\ TReturn(c, [status |-> 400, error |-> "Invalid updates"])
          ELSE IF \E k \in DOMAIN q.body.updates : malformedItem(q.body.updates[k])
          THEN UNCHANGED tloc
               /\ TReturn(c, [status |-> 400, error |-> "Invalid update format"])
          ELSE /\ tloc' = [tloc EXCEPT ![c] =
                             << [i |-> 1, updated |-> 0, errors |-> <<>>,
                                 tree |-> <<>>, outcomes |-> <<>>] >>]
               /\ TGoto(c, "lookup")
  /\ UNCHANGED <<trees, serial>>
  /\ UNCHANGED <<valVars, tileVars, upVars, dragVars>>

updatesOf(c) == reqOf(c).body.updates
itemOf(c) == updatesOf(c)[locOf(c).i]

nextUpdate_Break(i, n) == n + 1

\* for (const update of updates): the item after item i of n
nextUpdate(i, n) == i + 1

\* errors.push({row_id, position, error}), then the next item
failedItem(loc, item, message, n) ==
  [loc EXCEPT !.errors = Append(@, [row_id |-> item.row_id,
                                     position |-> item.position, error |-> message]),
              !.outcomes = Append(@, "failed"),
              !.tree = <<>>,
              !.i = nextUpdate(@, n)]

\* updated++, then the next item
updatedItem(loc, n) ==
  [loc EXCEPT !.updated = @ + 1,
              !.outcomes = Append(@, "updated"),
              !.tree = <<>>,
              !.i = nextUpdate(@, n)]

loopLabel(loc, n) == IF loc.i > n THEN "respond" ELSE "lookup"

\* bulkUpdateTrees: getTreeByRowPosition for the current item
BulkLookup(c) ==
  /\ tpc[c] = "lookup"
  /\ \E dbOk \in BOOLEAN :
       LET item == itemOf(c)
           n == Len(updatesOf(c))
           hits == IF dbOk
                   THEN treesAt(trees, reqOf(c).body.orchard_id, item.row_id, item.position)
                   ELSE {}
           missed == failedItem(locOf(c), item, "Tree not found", n)
       IN IF hits = {}
          THEN /\ tloc' = [tloc EXCEPT ![c] = <<missed>>]
               /\ TGoto(c, loopLabel(missed, n))
          ELSE /\ \E tree \in hits :
                    tloc' = [tloc EXCEPT ![c] = << [locOf(c) EXCEPT !.tree = <<tree.tree_id>>] >>]
               /\ TGoto(c, "update")
  /\ UNCHANGED <<trees, serial, treq>>
  /\ UNCHANGED <<valVars, tileVars, upVars, dragVars>>

\* bulkUpdateTrees: updateTree(tree.tree_id, fields) for the current item
BulkUpdate(c) ==
  /\ tpc[c] = "update"
  /\ \E dbOk \in BOOLEAN :
       LET item == itemOf(c)
           n == Len(updatesOf(c))
           fields == Restrict(item, (DOMAIN item) \ {"row_id", "position"})
           u == updateTree(trees, locOf(c).tree[1], fields, dbOk)
           next == IF u.result # <<>>
                   THEN updatedItem(locOf(c), n)
                   ELSE failedItem(locOf(c), item, "Update failed", n)
       IN /\ trees' = u.rows
          /\ tloc' = [tloc EXCEPT ![c] = <<next>>]
          /\ TGoto(c, loopLabel(next, n))
  /\ UNCHANGED <<serial, treq>>
  /\ UNCHANGED <<valVars, tileVars, upVars, dragVars>>

bulkStatus_Always200(updated, failed) == 200

\* status: partialSuccess ? 207 : 200
bulkStatus(updated, failed) == IF updated > 0 /\ failed > 0 THEN 207 ELSE 200

\* the route's answer to bulkUpdateTrees' result
bulkResponse(updated, errors, total) ==
  IF updated = 0 /\ Len(errors) > 0
  THEN [status |-> 400, success |-> FALSE, message |-> "All updates failed",
        updated |-> updated, total |-> total, errors |-> errors]
  ELSE [status |-> bulkStatus(updated, Len(errors)), success |-> TRUE,
        updated |-> updated, total |-> total, errors |-> errors]

\* bulkUpdateTrees returns {updated, errors} and the route answers
BulkRespond(c) ==
  /\ tpc[c] = "respond"
  /\ TReturn(c, bulkResponse(locOf(c).updated, locOf(c).errors, Len(updatesOf(c))))
  /\ UNCHANGED <<trees, serial, treq, tloc>>
  /\ UNCHANGED <<valVars, tileVars, upVars, dragVars>>

(***************************************************************************)
(* Marker drags on the orchard page.  A state change of trees or           *)
(* isDragging re-runs the marker effect: its cleanup removes every marker  *)
(* and new markers are created at the trees' positions.                    *)
(***************************************************************************)
dragOf(d) == drags[d][1]

underWay(d) == drags[d] # <<>> /\ dragOf(d).phase \in {"dragging", "inflight"}

\* the effect's cleanup: the markers the drags hold are off the map
removed(ds) ==
  [d \in Drags |-> IF ds[d] = <<>> THEN <<>> ELSE << [ds[d][1] EXCEPT !.live = FALSE] >>]

\* the marker effect, re-run when a dependency changed
rendered(changed, positions, shown) == IF changed THEN positions ELSE shown

rerun(changed, ds) == IF changed THEN removed(ds) ELSE ds

\* marker.on('dragstart'): setIsDragging(true), dragStartPos.current = tree's
\* position; a marker removed by the re-render either ends its drag there or
\* goes on being dragged off the map
DragStart(d, m) ==
  /\ ~underWay(d)
  /\ \A o \in Drags : ~(drags[o] # <<>> /\ dragOf(o).phase = "dragging")
  /\ isDragging' = TRUE
  /\ dragStartPos' = <<treePos[m]>>
  /\ shownPos' = rendered(~isDragging, treePos, shownPos)
  /\ \E goesOn \in BOOLEAN :
       LET started == [tree |-> m, phase |-> "dragging", live |-> TRUE,
                       from |-> shownPos[m], to |-> shownPos[m]]
           ds == [drags EXCEPT ![d] = <<started>>]
       IN IF isDragging \/ goesOn
          THEN drags' = rerun(~isDragging, ds)
          ELSE drags' = rerun(TRUE, [drags EXCEPT ![d] = <<>>])
  /\ UNCHANGED treePos
  /\ UNCHANGED <<valVars, tileVars, upVars, treeVars>>

\* marker.on('dragend'): the marker stands where it was dropped and
\* handleTreeDragEnd sends the PUT
DragEnd(d, to) ==
  /\ drags[d] # <<>>
  /\ dragOf(d).phase = "dragging"
  /\ drags' = [drags EXCEPT ![d] = << [dragOf(d) EXCEPT !.phase = "inflight", !.to = to] >>]
  /\ shownPos' = IF dragOf(d).live THEN [shownPos EXCEPT ![dragOf(d).tree] = to]
                 ELSE shownPos
  /\ UNCHANGED <<treePos, isDragging, dragStartPos>>
  /\ UNCHANGED <<valVars, tileVars, upVars, treeVars>>

\* handleTreeDragEnd after the fetch: setTrees with the repositioned tree on
\* an OK response; otherwise (non-OK response or network error)
\* if (dragStartPos.current) marker.setLngLat(dragStartPos.current); then the
\* finally block
Respond(d, ok) ==
  /\ drags[d] # <<>>
  /\ dragOf(d).phase = "inflight"
  /\ LET m == dragOf(d).tree
         moved == IF ~ok /\ dragStartPos # <<>> /\ dragOf(d).live
                  THEN [shownPos EXCEPT ![m] = dragStartPos[1]]
                  ELSE shownPos
         ended == [drags EXCEPT ![d] =
                     << [dragOf(d) EXCEPT !.phase = IF ok THEN "saved" ELSE "failed"] >>]
     IN /\ treePos' = IF ok THEN [treePos EXCEPT ![m] = dragOf(d).to] ELSE treePos
        /\ isDragging' = FALSE
        /\ dragStartPos' = <<>>
        /\ shownPos' = rendered(ok \/ isDragging, treePos', moved)
        /\ drags' = rerun(ok \/ isDragging, ended)
  /\ UNCHANGED <<valVars, tileVars, upVars, treeVars>>

(***************************************************************************)
(* Specifications.  The upload flow, the validators and the tile route     *)
(* share no state, so each is explored on its own: Spec is the upload      *)
(* flow with any interleaving of its requests, SpecValidation applies the  *)
(* two validators to every input, SpecTiles serves tile requests.          *)
(***************************************************************************)
vars == <<valVars, tileVars, upVars, pageVars>>

Init == UpInit /\ ValIdle /\ TileIdle /\ TreeInit /\ DragInit

Next ==
  \/ Tick
  \/ \E r \in Reqs :
       \/ Begin(r) \/ CheckExists(r) \/ MakeTemp(r) \/ WriteTemp(r) \/ Validate(r)
       \/ Rename(r) \/ InsertCheck(r) \/ InsertSql(r) \/ ConfigRead(r)
       \/ ConfigWrite(r) \/ Finally(r)

Spec == Init /\ [][Next]_vars

\* one upload of any name, from the request to its response
InitSanitize ==
  /\ now = 0
  /\ db = {SeedRow}
  /\ tmp = [t \in 0..MaxClock |-> <<>>]
  /\ store = [id \in OrchardIds \cup SanIds |->
                IF id = SeedRow.id THEN <<FileSeed>> ELSE <<>>]
  /\ registry = <<SeedConfig>>
  /\ pc = [r \in Reqs |-> "idle"]
  /\ inp = [r \in Reqs |-> <<>>]
  /\ temp = [r \in Reqs |-> <<>>]
  /\ val = [r \in Reqs |-> <<>>]
  /\ snap = [r \in Reqs |-> <<>>]
  /\ resp = [r \in Reqs |-> <<>>]
  /\ ValIdle
  /\ TileIdle
  /\ TreeInit
  /\ DragInit

SubmitNamed ==
  \E n \in SanNames : Submit(SanReq, Input(TRUE, n, "Sequim, WA", <<FilePng22>>))

NextSanitize ==
  \/ SubmitNamed
  \/ CheckExists(SanReq) \/ MakeTemp(SanReq) \/ WriteTemp(SanReq)
  \/ Validate(SanReq) \/ Rename(SanReq) \/ InsertCheck(SanReq)
  \/ InsertSql(SanReq) \/ ConfigRead(SanReq) \/ ConfigWrite(SanReq)
  \/ Finally(SanReq)

SpecSanitize == InitSanitize /\ [][NextSanitize]_vars

\* two clients of the tree routes, one request each, in any interleaving
InitTrees == TreeInit /\ DragInit /\ UpInit /\ ValIdle /\ TileIdle

NextTrees ==
  \E c \in TreeClients :
    \/ PostTree(c) \/ CheckDuplicate(c) \/ InsertTreeCheck(c) \/ InsertTreeSql(c)
    \/ PutTree(c) \/ PutUpsert(c) \/ DeleteTree(c)
    \/ BulkPost(c) \/ BulkLookup(c) \/ BulkUpdate(c) \/ BulkRespond(c)

SpecTrees == InitTrees /\ [][NextTrees]_vars

\* drags of the markers of two trees, with their requests in flight
InitDrag == DragInit /\ TreeInit /\ UpInit /\ ValIdle /\ TileIdle

NextDrag ==
  \E d \in Drags :
    \/ \E m \in MapTrees : DragStart(d, m)
    \/ \E to \in Places : DragEnd(d, to)
    \/ \E ok \in BOOLEAN : Respond(d, ok)

SpecDrag == InitDrag /\ [][NextDrag]_vars

InitValidation == ValInit /\ TileIdle /\ UpInit /\ TreeInit /\ DragInit

NextValidation == ValidateFile \/ LoadPMTiles

SpecValidation == InitValidation /\ [][NextValidation]_vars

InitTiles == TileInit /\ ValIdle /\ UpInit /\ TreeInit /\ DragInit

NextTiles == TileRequest

SpecTiles == InitTiles /\ [][NextTiles]_vars

InitTileRepeat ==
  /\ TileInit
  /\ scheme = [o \in DOMAIN MBTILES_PATHS |-> "xyz"]
  /\ ValIdle
  /\ UpInit
  /\ TreeInit
  /\ DragInit

NextTileRepeat == \E c \in TileClients : Arrive(c) \/ Answer(c)

SpecTileRepeat == InitTileRepeat /\ [][NextTileRepeat]_vars

(***************************************************************************)
(* Properties of validatePMTilesFile and validatePMTiles (SpecValidation)  *)
(***************************************************************************)
AcceptedTypes == RasterTypes \cup VectorTypes

fileCalls == { vLog[i] : i \in DOMAIN vLog }
loadCalls == { lLog[i] : i \in DOMAIN lLog }
headerCalls == { c \in fileCalls : c.rd.kind = "header" }

warningsOf(result) == IF "warnings" \in DOMAIN result THEN result.warnings ELSE <<>>

\* C1: every header whose tile type is a raster codec (PNG, JPEG, WEBP, AVIF) or
\* vector MVT, and whose four bounds coordinates are present, validates as
\* valid.  (Violated: the code accepts the codes 1 and 2 only.)
C1_AllRasterAndVectorAccepted ==
  \A c \in headerCalls :
    (c.rd.header.tileType \in AcceptedTypes /\ ~boundsMissing(c.rd.header))
      => c.result.valid

\* C2: a header whose tile type is outside the raster codecs and vector MVT
\* validates as invalid, with an error text that contains the numeric type.
C2_UnsupportedTypeRejectedByNumber ==
  \A c \in headerCalls :
    c.rd.header.tileType \notin AcceptedTypes
      => /\ ~c.result.valid
         /\ Mentions(c.result.error, ToString(c.rd.header.tileType))

C2_Witness ==
  \E c \in headerCalls :
    /\ c.rd.header.tileType = 7
    /\ ~c.result.valid
    /\ Mentions(c.result.error, "7")

\* C8: every validation outcome, of either validator and for any header, read
\* failure or parse failure, has metadata populated exactly when valid is true.
\* (Violated: validatePMTiles answers valid with the metadata getMetadata()
\* gave, also when that is null.)
C8_MetadataIffValid ==
  \A c \in fileCalls \cup loadCalls :
    ("metadata" \in DOMAIN c.result) <=> c.result.valid

\* C9: for an accepted header with max zoom m the metadata max zoom is
\* min(m, 21.5), and a warning that states both m and 21.5 is emitted exactly
\* when m > 21.5.
C9_MaxZoomClamped ==
  \A c \in headerCalls :
    c.result.valid =>
      LET m == c.rd.header.maxZoom
          ws == warningsOf(c.result)
      IN /\ c.result.metadata.maxZoom = (IF m <= ZoomCap THEN m ELSE ZoomCap)
         /\ (\E i \in DOMAIN ws : Mentions(ws[i], NumText(m)) /\ Mentions(ws[i], "21.5"))
              <=> (m > ZoomCap)

C9_Witness ==
  \E c \in headerCalls :
    /\ c.rd.header.maxZoom = Zoom(25)
    /\ c.result.valid
    /\ c.result.metadata.maxZoom = ZoomCap
    /\ \E i \in DOMAIN warningsOf(c.result) :
         /\ Mentions(warningsOf(c.result)[i], "25")
         /\ Mentions(warningsOf(c.result)[i], "21.5")

(***************************************************************************)
(* Properties of the tile route (SpecTiles)                                *)
(***************************************************************************)
\* C3: the row looked up is reconciled per archive: for an archive produced
\* with its origin south-west ("tms") and N = 2^z rows at the requested zoom,
\* a request for row r looks up stored row N-1-r; for an archive produced with
\* its origin north-west ("xyz") it looks up row r.  (Violated: the route
\* looks up row r for every archive.)
C3_RowReconciledPerArchive ==
  \A i \in DOMAIN tileQuery :
    LET rq == tileReq[i]
        q == tileQuery[i]
    IN rq.y < 2^rq.z =>
         q.row = (IF scheme[rq.orchard] = "tms" THEN 2^rq.z - 1 - rq.y ELSE rq.y)

(***************************************************************************)
(* Properties of the upload flow (Spec)                                    *)
(***************************************************************************)
started(r) == inp[r] # <<>>
succeeded(r) == resp[r] # <<>> /\ resp[r][1].status = 200
invalidated(r) == val[r] # <<>> /\ ~val[r][1].valid
moves(r) == pc'[r] # pc[r]

rowsOf(id) == { row \in db : row.id = id }
entriesOf(id) == { i \in DOMAIN registry : registry[i].id = id }

\* C4: a request whose validation failed ends with an error response, and no
\* step it takes - before, at or after the validation - changes the orchards
\* table, the id-keyed archive storage or the registry.
C4_InvalidAnswersError ==
  \A r \in Reqs :
    invalidated(r) =>
      /\ pc[r] \in {"finally", "done"}
      /\ resp[r] # <<>>
      /\ resp[r][1].status >= 400

C4_InvalidStepsPersistNothing ==
  \A r \in Reqs :
    (moves(r) /\ (pc[r] \in {"idle", "exists", "mktemp", "write", "validate"}
                    \/ invalidated(r)))
      => UNCHANGED <<db, store, registry>>

\* C4, as one formula: the error response in every state, and nothing
\* persisted by any step of a request before or after its failed validation
C4_InvalidPersistsNothing ==
  []C4_InvalidAnswersError /\ [][C4_InvalidStepsPersistNothing]_vars

C4_Witness ==
  \E r \in Reqs :
    /\ pc[r] = "done"
    /\ invalidated(r)
    /\ fileOf(r) = FileJpeg25
    /\ resp[r][1].status = 400
    /\ store[idOf(r)] = <<>>

\* C5: two requests whose names derive the same orchard id never both get a
\* success response, and the orchards table never holds two rows with one id.
C5_OneWinnerPerId ==
  /\ \A r, s \in Reqs :
       (r # s /\ started(r) /\ started(s) /\ idOf(r) = idOf(s))
         => ~(succeeded(r) /\ succeeded(s))
  /\ \A row1, row2 \in db : row1.id = row2.id => row1 = row2

\* both passed the existence check, one created the orchard, the other failed
C5_Witness ==
  \E r, s \in Reqs :
    /\ inp[r] # <<>> /\ inp[s] # <<>>
    /\ inp[r][1].name = NameOak /\ inp[s][1].name = NameOakSlug
    /\ pc[r] = "done" /\ pc[s] = "done"
    /\ succeeded(r)
    /\ val[s] # <<>> /\ val[s][1].valid /\ resp[s][1].status = 500

\* C6: an upload that does not return success never replaces the stored
\* archive of an orchard another upload created.  A request that reaches the
\* move of its file while the table already holds a row with its id, a row
\* another upload inserted (its own insert comes later, and the id is not of
\* the seed data), cannot return success any more; the claim is that its move
\* leaves the archive stored for that id as it is.  (Violated: fs.rename
\* replaces it.)
C6_LoserStep ==
  \A r \in Reqs :
    (pc[r] = "rename" /\ moves(r) /\ idOf(r) # SeedRow.id /\ rowsOf(idOf(r)) # {})
      => store'[idOf(r)] = store[idOf(r)]

\* C6, over every step of every behaviour
C6_LoserLeavesArchive == [][C6_LoserStep]_vars

\* C7: the upload is atomic: when a request failed in validation, in moving
\* the file, in the insert or in the registry update, and no other request
\* and no seed data carries its id, then there is no row, no stored archive and
\* no registry entry for that id.  (Violated: nothing is rolled back.)
C7_FailedUploadLeavesNothing ==
  \A r \in Reqs :
    ( /\ pc[r] = "done"
      /\ val[r] # <<>>
      /\ ~succeeded(r)
      /\ idOf(r) # SeedRow.id
      /\ \A s \in Reqs \ {r} : ~started(s) \/ idOf(s) # idOf(r) )
    => /\ rowsOf(idOf(r)) = {}
       /\ store[idOf(r)] = <<>>
       /\ entriesOf(idOf(r)) = {}

\* C10: every registry entry the upload flow wrote carries a maxZoom of at most
\* 21.5, and it is min(m, 21.5) for the max zoom m of the header the request
\* validated: the header of a file uploaded to that request's temporary path.
C10_PersistedMaxZoomClamped ==
  \A i \in DOMAIN registry :
    registry[i] # SeedConfig =>
      /\ registry[i].maxZoom <= ZoomCap
      /\ \E r \in Reqs :
           /\ started(r) /\ idOf(r) = registry[i].id
           /\ val[r] # <<>> /\ val[r][1].valid
           /\ registry[i].maxZoom = val[r][1].metadata.maxZoom
           /\ \E s \in Reqs :
                /\ started(s) /\ inp[s][1].file # <<>> /\ temp[s] = temp[r]
                /\ fileOf(s).read.kind = "header"
                /\ LET m == fileOf(s).read.header.maxZoom
                   IN registry[i].maxZoom = (IF m <= ZoomCap THEN m ELSE ZoomCap)

\* a header max zoom of 22 persisted as 21.5
C10_Witness ==
  \E r \in Reqs : \E i \in DOMAIN registry :
    /\ pc[r] = "done" /\ succeeded(r)
    /\ fileOf(r) = FilePng22
    /\ val[r][1].metadata.maxZoom = ZoomCap
    /\ registry[i].id = idOf(r)
    /\ registry[i].maxZoom = ZoomCap

\* C11: once a request has its success response for orchard id X, X stays
\* discoverable whatever other uploads do: the table holds a row with id X,
\* an archive is stored at the path keyed by X, and the registry holds an
\* entry for X with its bounds, zoom range and tile path.  (Violated: two
\* requests that both read the registry file before either writes it back
\* lose the entry of the one that writes first.)
C11_CreatedStaysDiscoverable ==
  \A r \in Reqs :
    succeeded(r) =>
      /\ rowsOf(idOf(r)) # {}
      /\ store[idOf(r)] # <<>>
      /\ \E i \in entriesOf(idOf(r)) :
           /\ registry[i].bounds = val[r][1].metadata.bounds
           /\ registry[i].minZoom = val[r][1].metadata.minZoom
           /\ registry[i].maxZoom = val[r][1].metadata.maxZoom
           /\ registry[i].orthoPmtilesPath =
                <<"/orchards/", idOf(r), "/tiles/orthomap.pmtiles">>

C13_VectorWarningIffMvt ==
  \A c \in headerCalls :
    LET t == c.rd.header.tileType
        warned == \E i \in DOMAIN warningsOf(c.result) :
                    warningsOf(c.result)[i] = VectorWarning
    IN /\ warned => t \in VectorTypes
       /\ (t \in VectorTypes /\ ~boundsMissing(c.rd.header)) =>
            (c.result.valid /\ warned)
       /\ t \in RasterTypes => ~warned

\* the same header with an explicit center added
withCenter(header) ==
  [f \in DOMAIN header \cup {"centerLon", "centerLat"} |->
     IF f \in DOMAIN header THEN header[f] ELSE 0]

\* C14: a header that omits its center validates exactly when the same header
\* with a center does, and when it validates the returned center is the
\* midpoint of the bounds in each omitted coordinate; a center coordinate the
\* header supplies (0 included) is returned unchanged.
C14_CenterMidpointOrSupplied ==
  \A c \in headerCalls :
    LET header == c.rd.header IN
      /\ c.result.valid = validatePMTilesFile(
             [kind |-> "header", header |-> withCenter(header)]).valid
      /\ c.result.valid =>
           /\ IF "centerLon" \in DOMAIN header
              THEN c.result.metadata.center.lng = header.centerLon
              ELSE 2 * c.result.metadata.center.lng = header.minLon + header.maxLon
           /\ IF "centerLat" \in DOMAIN header
              THEN c.result.metadata.center.lat = header.centerLat
              ELSE 2 * c.result.metadata.center.lat = header.minLat + header.maxLat

\* a valid result for a header that omits centerLon and supplies centerLat 0:
\* the longitude is the midpoint -123 of the bounds, and the latitude is the
\* supplied 0, not the midpoint 49
C14_Witness ==
  \E c \in headerCalls :
    /\ c.result.valid
    /\ "centerLon" \notin DOMAIN c.rd.header
    /\ "centerLat" \in DOMAIN c.rd.header
    /\ c.rd.header.centerLat = 0
    /\ c.rd.header.minLat + c.rd.header.maxLat = 2 * Deg(49)
    /\ c.result.metadata.center = [lng |-> Deg(-123), lat |-> 0]

\* the four conditions of the claim, on a header that has its bounds
coversWorld(header) ==
  /\ header.minLon <= Deg(-180)
  /\ header.maxLon >= Deg(180)
  /\ header.minLat <= Deg(-85)
  /\ header.maxLat >= Deg(85)

worldWarned(result) ==
  \E i \in DOMAIN warningsOf(result) : warningsOf(result)[i] = WorldBoundsWarning

C16_MissingBoundIsFailure ==
  \A c \in headerCalls :
    (\E f \in {"minLon", "minLat", "maxLon", "maxLat"} : f \notin DOMAIN c.rd.header)
      => /\ ~c.result.valid
         /\ "error" \in DOMAIN c.result
         /\ "metadata" \notin DOMAIN c.result

\* a header of an accepted tile type that lacks exactly one bound was rejected
\* for its bounds
C16_Witness ==
  \E c \in headerCalls :
    /\ tileTypeOf(c.rd.header.tileType) # "unsupported"
    /\ "maxLat" \notin DOMAIN c.rd.header
    /\ "minLon" \in DOMAIN c.rd.header
    /\ ~c.result.valid
    /\ c.result.error = <<"PMTiles file does not contain valid geographic bounds">>

(***************************************************************************)
(* Properties of the tile route, one request at a time (SpecTiles) and     *)
(* under concurrent clients (SpecTileRepeat)                               *)
(***************************************************************************)
\* the request answered last named a known archive that sqlite can open
servedFromArchive ==
  /\ tileReq # <<>>
  /\ tileReq[1].orchard \in DOMAIN MBTILES_PATHS
  /\ opens[tileReq[1].orchard]

\* the tiles the archive of the last request holds at the requested (z, x, y)
tilesAtRequest ==
  { t \in TileRows(MBTILES_PATHS[tileReq[1].orchard]) :
      /\ t.zoom_level = tileReq[1].z
      /\ t.tile_column = tileReq[1].x
      /\ t.tile_row = tileReq[1].y
      /\ t.tile_data # <<>> }

\* text contains the tokens of part one after the other
Contains(text, part) ==
  \E i \in 0..(Len(text) - Len(part)) :
    \A j \in 1..Len(part) : text[i + j] = part[j]

\* C17: a request whose archive identifier is not a key of the lookup table
\* of known archives is answered 404, and no lookup in any archive database
\* is issued for it.  (Violated: an identifier that names an inherited member
\* of the table object, such as "constructor", is answered 500.)
C17_UnknownArchiveIs404 ==
  \A i \in DOMAIN tileReq :
    tileReq[i].orchard \notin DOMAIN MBTILES_PATHS =>
      /\ tileResp[i].status = 404
      /\ tileQuery = <<>>

\* C18: when the known archive of a request holds no tile at the requested
\* (z, x, y), the response is 404 (so not 500) and its text contains z/x/y.
C18_MissIs404WithCoordinate ==
  (servedFromArchive /\ tilesAtRequest = {}) =>
    /\ tileResp[1].status = 404
    /\ Contains(tileResp[1].text,
         <<ToString(tileReq[1].z), "/", ToString(tileReq[1].x), "/",
           ToString(tileReq[1].y)>>)

\* washington holds no row at 2/1/1: a request for it was looked up and
\* answered 404
C18_Witness ==
  /\ servedFromArchive
  /\ tileReq[1] = [orchard |-> "washington", z |-> 2, x |-> 1, y |-> 1]
  /\ tileQuery # <<>>
  /\ tileResp[1].status = 404

\* the first two bytes of a blob, or << >> when it has fewer
leadingBytes(blob) == IF Len(blob) >= 2 THEN <<blob[1], blob[2]>> ELSE <<>>

\* C19: the content type of every served tile is the one its first two bytes
\* decide: 0x89 0x50 PNG, 0xFF 0xD8 JPEG, 0x52 0x49 WEBP, and
\* application/octet-stream for anything else.
C19_ContentTypeFromTwoBytes ==
  \A i \in DOMAIN tileResp :
    tileResp[i].status = 200 =>
      tileResp[i].contentType =
        (CASE leadingBytes(tileResp[i].body) = <<137, 80>> -> "image/png"
           [] leadingBytes(tileResp[i].body) = <<255, 216>> -> "image/jpeg"
           [] leadingBytes(tileResp[i].body) = <<82, 73>> -> "image/webp"
           [] OTHER -> "application/octet-stream")

\* a served tile whose first byte is PNG's and whose second is not
C19_Witness ==
  /\ tileResp # <<>>
  /\ tileResp[1].status = 200
  /\ tileResp[1].body = <<137, 0, 80>>
  /\ tileResp[1].contentType = "application/octet-stream"

C26_UnauthenticatedIs401 ==
  \A r \in Reqs :
    (inp[r] # <<>> /\ ~inp[r][1].session) =>
      /\ resp[r] # <<>>
      /\ resp[r][1].status = 401
      /\ "error" \in DOMAIN resp[r][1]
      /\ resp[r][1].error = "Unauthorized. Please sign in."

\* ---------------------------------------------------------------------
\* C29: two uploads processed at the same time never share a temporary
\* file: each request validates exactly the bytes it received, and on
\* success stores exactly those bytes at its own id-keyed path
C29_OwnBytesValidatedAndStored ==
  [][\A r \in Reqs :
       /\ (pc[r] = "validate" /\ pc'[r] # "validate") =>
            val'[r] = <<validatePMTilesFile(fileOf(r).read)>>
       /\ (pc[r] = "rename" /\ pc'[r] = "insert") =>
            store'[idOf(r)] = <<fileOf(r)>>]_vars


\* ---------------------------------------------------------------------
\* Orchard id sanitization (SpecSanitize)
slugAlphabet == DigitChars \cup { LowerCase[i] : i \in DOMAIN LowerCase } \cup {"-"}

nothingWritten ==
  /\ db = {SeedRow}
  /\ registry = <<SeedConfig>>
  /\ \A t \in DOMAIN tmp : tmp[t] = <<>>
  /\ \A id \in DOMAIN store : store[id] # <<>> => id = SeedRow.id

\* C27: for every submitted name, either the derived id is empty and the
\* request is rejected with 400 before anything is written, or the id has
\* only lowercase letters, digits and hyphens with no leading or trailing
\* hyphen, and the storage path built from it stays under public/orchards/
C27_SanitizedIdOrRejected ==
  \A r \in Reqs :
    inp[r] # <<>> =>
      LET id == orchardIdOf(inp[r][1].name)
      IN IF id = <<>>
         THEN /\ pc[r] = "done"
              /\ resp[r][1].status = 400
              /\ nothingWritten
         ELSE /\ \A k \in DOMAIN id : id[k] \in slugAlphabet
              /\ id[1] # "-" /\ id[Len(id)] # "-"
              /\ finalPathOf(id) =
                   << <<"public">>, <<"orchards">>, id, <<"tiles">>, <<"orthomap.pmtiles">> >>

\* a name with a dot and a slash in it was stored under its sanitized id
C27_Witness ==
  /\ inp[SanReq] # <<>>
  /\ inp[SanReq][1].name = <<".", "/", "b">>
  /\ pc[SanReq] = "done"
  /\ store[<<"b">>] = <<FilePng22>>


(***************************************************************************)
(* Properties of the tree routes (SpecTrees)                               *)
(***************************************************************************)
bulkStarted(c) == treq[c] # <<>> /\ reqOf(c).op = "bulk" /\ tloc[c] # <<>>

countOf(seq, v) == Cardinality({ k \in DOMAIN seq : seq[k] = v })

\* C21: every item of a batch given to bulkUpdateTrees is accounted for
\* exactly once, in `updated` or as one entry of `errors`, so that
\* updated + errors.length is the number of items, and an item that fails
\* does not keep the items after it from being processed
C21_EveryItemAccountedOnce ==
  \A c \in TreeClients :
    bulkStarted(c) =>
      LET loc == locOf(c)
          n == Len(updatesOf(c))
      IN /\ Len(loc.outcomes) = loc.i - 1
         /\ loc.updated = countOf(loc.outcomes, "updated")
         /\ Len(loc.errors) = countOf(loc.outcomes, "failed")
         /\ \A k \in DOMAIN loc.outcomes :
              loc.outcomes[k] = "failed" =>
                LET e == loc.errors[countOf(SubSeq(loc.outcomes, 1, k), "failed")]
                IN /\ e.row_id = updatesOf(c)[k].row_id
                   /\ e.position = updatesOf(c)[k].position
         /\ tpc[c] \in {"respond", "done"} => loc.updated + Len(loc.errors) = n
         /\ tpc[c] = "done" =>
              /\ tresp[c][1].updated = loc.updated
              /\ tresp[c][1].errors = loc.errors
              /\ tresp[c][1].total = n

\* a batch whose first item failed and whose second item was updated
C21_Witness ==
  \E c \in TreeClients :
    /\ bulkStarted(c)
    /\ tpc[c] = "done"
    /\ locOf(c).outcomes = <<"failed", "updated">>

\* C22: an authenticated, well-formed bulk update is answered 200 exactly
\* when every item was updated, 207 exactly when at least one item was
\* updated and at least one failed, and 400 with success = false exactly
\* when no item was updated
C22_BulkStatusByOutcome ==
  \A c \in TreeClients :
    (bulkStarted(c) /\ tpc[c] = "done") =>
      LET r == tresp[c][1]
          n == Len(updatesOf(c))
          u == countOf(locOf(c).outcomes, "updated")
      IN /\ reqOf(c).session
         /\ (r.status = 200) <=> (u = n)
         /\ (r.status = 207) <=> (u >= 1 /\ u < n)
         /\ (r.status = 400 /\ ~r.success) <=> (u = 0)
         /\ r.status \in {200, 207, 400}

\* a batch answered 207
C22_Witness ==
  \E c \in TreeClients :
    /\ bulkStarted(c)
    /\ tpc[c] = "done"
    /\ tresp[c][1].status = 207
    /\ countOf(locOf(c).outcomes, "updated") = 1
    /\ countOf(locOf(c).outcomes, "failed") = 1

\* C23: no tree update, through updateTree, the PUT route or the bulk
\* update, changes an existing tree's id, tree_id, orchard_id, row_id,
\* position or created_at.  (Violated: updateTree applies every field it is
\* given and the bulk update strips row_id and position only.)
C23_ProtectedFieldsKept ==
  [][\A c \in TreeClients :
       (tpc'[c] # tpc[c] /\ treq'[c][1].op \in {"put", "bulk"}) =>
         \A old \in trees \ trees' :
           \E new \in trees' \ trees :
             \A f \in ProtectedFields : new[f] = old[f]]_vars

\* C24: after any sequence of tree operations no two trees of one orchard
\* share (row_id, position).  (Violated: the table has no such constraint
\* and the upsert and the bulk update write the three columns unchecked.)
C24_NoDuplicateRowPosition ==
  \A a, b \in trees :
    (/\ a # b
     /\ a.orchard_id # <<>> /\ a.row_id # <<>> /\ a.position # <<>>
     /\ a.orchard_id = b.orchard_id)
      => ~(a.row_id = b.row_id /\ a.position = b.position)

\* C25: every request without a session that would create, update or
\* delete a tree is rejected and leaves the tree store unchanged.
\* (Violated: the PUT of app/api/trees/[id]/route.ts asks for no session.)
C25_WritesNeedSession ==
  [][\A c \in TreeClients :
       (tpc[c] = "idle" /\ tpc'[c] # "idle" /\ ~treq'[c][1].session) =>
         /\ trees' = trees
         /\ tpc'[c] = "done"
         /\ tresp'[c][1].status = 401]_vars

\* C30: within one orchard generateTreeId maps distinct (row_id, position)
\* pairs to distinct tree_ids, so an INSERT at a location that
\* checkDuplicateRowPosition reports as unoccupied does not fail on the
\* tree_id uniqueness constraint.  (Violated: rows "1" and "01" both pad to
\* R01.)
C30_GeneratedIdsDistinct ==
  [][/\ \A r1, r2 \in TreeRowIds, p1, p2 \in {1, 3} :
          <<r1, p1>> # <<r2, p2>> =>
            generateTreeId("washington", r1, p1) # generateTreeId("washington", r2, p2)
     /\ \A c \in TreeClients :
          (/\ tpc[c] = "insert" /\ tpc'[c] = "done"
           /\ ~checkDuplicateRowPosition(trees, reqOf(c).body.orchard_id,
                  reqOf(c).body.row_id, reqOf(c).body.position, TRUE))
            => ~(/\ tresp'[c][1].status = 500
                 /\ tresp'[c][1].details = TreeIdKeyMessage)]_vars


(***************************************************************************)
(* Properties of the marker drags (SpecDrag)                               *)
(***************************************************************************)
\* C28: whenever a reposition request fails, the dragged marker ends at the
\* position it had when that drag started, also when another marker's drag
\* starts or completes while the request is in flight
C28_FailedDragReverts ==
  [][\A d \in Drags :
       (/\ drags[d] # <<>> /\ dragOf(d).phase = "inflight"
        /\ drags'[d] # <<>> /\ drags'[d][1].phase = "failed")
         => shownPos'[dragOf(d).tree] = dragOf(d).from]_vars

====
